---------------------------- MODULE Spec2Model ----------------------------
(***************************************************************************)
(* Model of the process supervisor of rtsp_to_mkv_segments.py: the outer   *)
(* launch / poll / restart loop of main(), the signal handler handle_sig,  *)
(* and the process-group terminator _kill_process_group.                   *)
(*                                                                         *)
(* Time.  The clock counts units of 200 ms (the terminator's poll          *)
(* interval) since session_start.  Only time.sleep() consumes time: a      *)
(* sleep of d seconds advances the clock by exactly d, every other         *)
(* statement is instantaneous.                                             *)
(*                                                                         *)
(* Concurrency.  The control thread is one sequential process whose        *)
(* position is pc.  The signal handler runs between any two of its steps.  *)
(* The child is a separate OS process: while it runs it may exit at any    *)
(* moment (on its own, or in response to SIGTERM); a child that ignores    *)
(* SIGTERM is one that never takes that step.  An exited child stays a     *)
(* zombie (its pid and process group still resolve) until proc.poll()      *)
(* reaps it.                                                               *)
(***************************************************************************)
EXTENDS Integers, Naturals, Sequences, FiniteSets, TLC

\* ------------------------------------------------------------------ bounds
MaxDuration == 2      \* --max-duration ranges over 0..MaxDuration seconds
MaxRestartsCfg == 2   \* --max-restarts ranges over 0..MaxRestartsCfg
MaxDelay == 2         \* --restart-delay ranges over 0..MaxDelay seconds
MaxSignals == 2       \* number of SIGINT/SIGTERM deliveries in a session
MaxLaunches == 5      \* cap on successful launches explored
MaxClock == 40        \* cap on the clock (200 ms units) explored
ScenarioDuration == 5 \* scenario A: --max-duration ranges over 1..5 seconds

\* ------------------------------------------------------- program constants
TickUnits == 5        \* time.sleep(1) in 200 ms units
PollUnits == 1        \* time.sleep(0.2) in 200 ms units
GraceUnits == 15      \* the 3.0 s grace period in 200 ms units
FatalExitCode == 1    \* sys.exit(1)

Markers ==
  {"started", "cmd", "launch", "prelaunch_deadline", "midrun_deadline",
   "sigterm", "sigkill", "stopped", "exit0", "exit1", "max_restarts", "ended"}

VARIABLES
  max_duration,   \* args.max_duration (seconds, 0 = unlimited)
  max_restarts,   \* args.max_restarts (0 = unlimited)
  restart_delay,  \* args.restart_delay (seconds)
  pc,             \* position of the control thread
  stop,           \* the stop flag
  restarts,       \* the restart counter
  clock,          \* time.monotonic() - session_start, in 200 ms units
  child,          \* "none" | "running" | "zombie" | "reaped"
  rc,             \* exit status of the child (-1 while it has none)
  delay_i,        \* iterations of the restart-delay loop already done
  deadline,       \* the terminator's local deadline
  log,            \* number of entries of each kind written to logf
  logOpen,        \* logf is open
  exit_status,    \* exit status of the supervisor (-1 while running)
  reported,       \* launch count printed by the session summary (-1 = none)
  sigs,           \* signals delivered so far
  launches,       \* history: successful Popen calls
  launchClock,    \* history: clock at the latest Popen call
  killCalls,      \* history: calls of _kill_process_group
  killStart,      \* history: clock at the latest terminator call
  endReason,      \* history: why the outer loop was left
  sigClock,       \* history: clock at the first signal delivery (-1 = none)
  sigPc           \* history: pc at the first signal delivery

vars == <<max_duration, max_restarts, restart_delay, pc, stop, restarts,
          clock, child, rc, delay_i, deadline, log, logOpen, exit_status,
          reported, sigs, launches, launchClock, killCalls, killStart,
          endReason, sigClock, sigPc>>

cfg == <<max_duration, max_restarts, restart_delay>>

sigAt == <<sigClock, sigPc>>

\* ----------------------------------------------------------------- helpers
Write(l, m) == [l EXCEPT ![m] = @ + 1]

ExitMarker(code) == IF code = 0 THEN "exit0" ELSE "exit1"

\* elapsed = time.monotonic() - session_start
Elapsed == clock

\* `max_duration and elapsed >= max_duration` before a launch
PreLaunchDeadline_gt(e) == max_duration # 0 /\ e > max_duration * TickUnits
PreLaunchDeadline(e) == max_duration # 0 /\ e >= max_duration * TickUnits

\* `max_duration and elapsed >= max_duration` while the child runs
MidRunDeadline_gt(e) == max_duration # 0 /\ e > max_duration * TickUnits
MidRunDeadline(e) == max_duration # 0 /\ e >= max_duration * TickUnits

\* `args.max_restarts and restarts >= args.max_restarts`
BudgetReached_gt(r) == max_restarts # 0 /\ r > max_restarts
BudgetReached(r) == max_restarts # 0 /\ r >= max_restarts

\* `while time.monotonic() < deadline` of the terminator
WaitContinues_unbounded(t, d) == TRUE
WaitContinues(t, d) == t < d

\* os.getpgid / os.killpg succeed as long as the pid has not been reaped
PidExists == child \in {"running", "zombie"}

\* -------------------------------------------------------------------- Init
Init ==
  /\ max_duration \in 0..MaxDuration
  /\ max_restarts \in 0..MaxRestartsCfg
  /\ restart_delay \in 0..MaxDelay
  /\ pc = "outer_test"
  /\ stop = FALSE
  /\ restarts = 0
  /\ clock = 0
  /\ child = "none"
  /\ rc = -1
  /\ delay_i = 0
  /\ deadline = 0
  /\ log = [m \in Markers |-> IF m \in {"started", "cmd"} THEN 1 ELSE 0]
  /\ logOpen = TRUE
  /\ exit_status = -1
  /\ reported = -1
  /\ sigs = 0
  /\ launches = 0
  /\ launchClock = 0
  /\ killCalls = 0
  /\ killStart = 0
  /\ endReason = "none"
  /\ sigClock = -1
  /\ sigPc = "none"

\* ------------------------------------------------------------ environment
\* SIGINT / SIGTERM delivered to the supervisor
handle_sig_toggle ==
  /\ pc \notin {"done", "fatal"}
  /\ sigs < MaxSignals
  /\ stop' = ~stop
  /\ sigs' = sigs + 1
  /\ sigClock' = IF sigs = 0 THEN clock ELSE sigClock
  /\ sigPc' = IF sigs = 0 THEN pc ELSE sigPc
  /\ UNCHANGED <<cfg, pc, restarts, clock, child, rc, delay_i, deadline, log,
                 logOpen, exit_status, reported, launches, launchClock,
                 killCalls, killStart, endReason>>

handle_sig ==
  /\ pc \notin {"done", "fatal"}
  /\ sigs < MaxSignals
  /\ stop' = TRUE
  /\ sigs' = sigs + 1
  /\ sigClock' = IF sigs = 0 THEN clock ELSE sigClock
  /\ sigPc' = IF sigs = 0 THEN pc ELSE sigPc
  /\ UNCHANGED <<cfg, pc, restarts, clock, child, rc, delay_i, deadline, log,
                 logOpen, exit_status, reported, launches, launchClock,
                 killCalls, killStart, endReason>>

\* the child process exits (unsolicited, or in response to SIGTERM)
ChildExit ==
  /\ child = "running"
  /\ child' = "zombie"
  /\ rc' \in {0, 1}
  /\ UNCHANGED <<cfg, sigAt, pc, stop, restarts, clock, delay_i, deadline, log,
                 logOpen, exit_status, reported, sigs, launches, launchClock,
                 killCalls, killStart, endReason>>

\* --------------------------------------------------------- the outer loop
\* `while not stop:`
OuterTest ==
  /\ pc = "outer_test"
  /\ IF stop
       THEN /\ pc' = "session_end"
            /\ endReason' = "stop_idle"
       ELSE /\ pc' = "guard"
            /\ UNCHANGED endReason
  /\ UNCHANGED <<cfg, sigAt, stop, restarts, clock, child, rc, delay_i, deadline,
                 log, logOpen, exit_status, reported, sigs, launches,
                 launchClock, killCalls, killStart>>

\* the pre-launch duration guard
PreLaunchGuard ==
  /\ pc = "guard"
  /\ IF PreLaunchDeadline(Elapsed)
       THEN /\ log' = Write(log, "prelaunch_deadline")
            /\ pc' = "session_end"
            /\ endReason' = "prelaunch_deadline"
       ELSE /\ pc' = "launch"
            /\ UNCHANGED <<log, endReason>>
  /\ UNCHANGED <<cfg, sigAt, stop, restarts, clock, child, rc, delay_i, deadline,
                 logOpen, exit_status, reported, sigs, launches, launchClock,
                 killCalls, killStart>>

\* the launch marker is written, then Popen succeeds
LaunchOk_resets ==
  /\ pc = "launch"
  /\ launches < MaxLaunches
  /\ log' = Write(log, "launch")
  /\ child' = "running"
  /\ rc' = -1
  /\ stop' = FALSE
  /\ launches' = launches + 1
  /\ launchClock' = clock
  /\ pc' = "poll_test"
  /\ UNCHANGED <<cfg, sigAt, restarts, clock, delay_i, deadline, logOpen,
                 exit_status, reported, sigs, killCalls, killStart, endReason>>

LaunchOk ==
  /\ pc = "launch"
  /\ launches < MaxLaunches
  /\ log' = Write(log, "launch")
  /\ child' = "running"
  /\ rc' = -1
  /\ launches' = launches + 1
  /\ launchClock' = clock
  /\ pc' = "poll_test"
  /\ UNCHANGED <<cfg, sigAt, stop, restarts, clock, delay_i, deadline, logOpen,
                 exit_status, reported, sigs, killCalls, killStart, endReason>>

\* the launch marker is written, then Popen raises FileNotFoundError or
\* PermissionError: sys.exit(1) unwinds the with block, which closes logf
LaunchFail_retry ==
  /\ pc = "launch"
  /\ log' = Write(log, "launch")
  /\ restarts' = restarts + 1
  /\ delay_i' = 0
  /\ pc' = "delay"
  /\ UNCHANGED <<cfg, sigAt, stop, clock, child, rc, deadline, logOpen, exit_status,
                 reported, sigs, launches, launchClock, killCalls, killStart,
                 endReason>>

LaunchFail_break ==
  /\ pc = "launch"
  /\ log' = Write(log, "launch")
  /\ endReason' = "fatal"
  /\ pc' = "session_end"
  /\ UNCHANGED <<cfg, sigAt, stop, restarts, clock, child, rc, delay_i, deadline,
                 logOpen, exit_status, reported, sigs, launches, launchClock,
                 killCalls, killStart>>

LaunchFail_noclose ==
  /\ pc = "launch"
  /\ log' = Write(log, "launch")
  /\ exit_status' = FatalExitCode
  /\ endReason' = "fatal"
  /\ pc' = "fatal"
  /\ UNCHANGED <<cfg, sigAt, stop, restarts, clock, child, rc, delay_i,
                 deadline, logOpen, reported, sigs, launches, launchClock,
                 killCalls, killStart>>

LaunchFail ==
  /\ pc = "launch"
  /\ log' = Write(log, "launch")
  /\ logOpen' = FALSE
  /\ exit_status' = FatalExitCode
  /\ endReason' = "fatal"
  /\ pc' = "fatal"
  /\ UNCHANGED <<cfg, sigAt, stop, restarts, clock, child, rc, delay_i, deadline,
                 reported, sigs, launches, launchClock, killCalls, killStart>>

\* --------------------------------------------------------- the poll loop
\* `while proc.poll() is None and not stop:`; poll() reaps an exited child
PollTest_nostop ==
  /\ pc = "poll_test"
  /\ IF child = "zombie"
       THEN /\ child' = "reaped"
            /\ pc' = "if_stop"
       ELSE /\ UNCHANGED child
            /\ pc' = "poll_sleep"
  /\ UNCHANGED <<cfg, sigAt, stop, restarts, clock, rc, delay_i, deadline,
                 log, logOpen, exit_status, reported, sigs, launches,
                 launchClock, killCalls, killStart, endReason>>

PollTest_inverted ==
  /\ pc = "poll_test"
  /\ pc' = IF child = "running" \/ stop THEN "if_stop" ELSE "poll_sleep"
  /\ UNCHANGED <<cfg, sigAt, stop, restarts, clock, child, rc, delay_i,
                 deadline, log, logOpen, exit_status, reported, sigs,
                 launches, launchClock, killCalls, killStart, endReason>>

PollTest ==
  /\ pc = "poll_test"
  /\ IF child = "zombie"
       THEN /\ child' = "reaped"
            /\ pc' = "if_stop"
       ELSE /\ UNCHANGED child
            /\ pc' = IF stop THEN "if_stop" ELSE "poll_sleep"
  /\ UNCHANGED <<cfg, sigAt, stop, restarts, clock, rc, delay_i, deadline, log,
                 logOpen, exit_status, reported, sigs, launches, launchClock,
                 killCalls, killStart, endReason>>

\* `time.sleep(1)` in the poll loop
PollSleep ==
  /\ pc = "poll_sleep"
  /\ clock + TickUnits <= MaxClock
  /\ clock' = clock + TickUnits
  /\ pc' = "midrun"
  /\ UNCHANGED <<cfg, sigAt, stop, restarts, child, rc, delay_i, deadline, log,
                 logOpen, exit_status, reported, sigs, launches, launchClock,
                 killCalls, killStart, endReason>>

\* the mid-run duration guard
MidRunGuard_noop ==
  /\ pc = "midrun"
  /\ pc' = "poll_test"
  /\ UNCHANGED <<cfg, sigAt, stop, restarts, clock, child, rc, delay_i,
                 deadline, log, logOpen, exit_status, reported, sigs,
                 launches, launchClock, killCalls, killStart, endReason>>

MidRunGuard ==
  /\ pc = "midrun"
  /\ IF MidRunDeadline(Elapsed)
       THEN /\ log' = Write(log, "midrun_deadline")
            /\ stop' = TRUE
       ELSE UNCHANGED <<log, stop>>
  /\ pc' = "poll_test"
  /\ UNCHANGED <<cfg, sigAt, restarts, clock, child, rc, delay_i, deadline, logOpen,
                 exit_status, reported, sigs, launches, launchClock,
                 killCalls, killStart, endReason>>

\* `if stop:` after the poll loop; the true branch calls the terminator
IfStop ==
  /\ pc = "if_stop"
  /\ IF stop
       THEN /\ pc' = "kp_getpgid"
            /\ killCalls' = killCalls + 1
            /\ killStart' = clock
       ELSE /\ pc' = "handle_exit"
            /\ UNCHANGED <<killCalls, killStart>>
  /\ UNCHANGED <<cfg, sigAt, stop, restarts, clock, child, rc, delay_i, deadline,
                 log, logOpen, exit_status, reported, sigs, launches,
                 launchClock, endReason>>

\* ------------------------------------------------- _kill_process_group
\* `pgid = os.getpgid(proc.pid)`; ProcessLookupError returns at once
KpGetpgid_raises ==
  /\ pc = "kp_getpgid"
  /\ IF PidExists
       THEN /\ pc' = "kp_sigterm"
            /\ UNCHANGED <<logOpen, exit_status, endReason>>
       ELSE /\ pc' = "fatal"
            /\ logOpen' = FALSE
            /\ exit_status' = FatalExitCode
            /\ endReason' = "fatal"
  /\ UNCHANGED <<cfg, sigAt, stop, restarts, clock, child, rc, delay_i,
                 deadline, log, reported, sigs, launches, launchClock,
                 killCalls, killStart>>

KpGetpgid ==
  /\ pc = "kp_getpgid"
  /\ pc' = IF PidExists THEN "kp_sigterm" ELSE "stopped_marker"
  /\ UNCHANGED <<cfg, sigAt, stop, restarts, clock, child, rc, delay_i, deadline,
                 log, logOpen, exit_status, reported, sigs, launches,
                 launchClock, killCalls, killStart, endReason>>

\* step 1: SIGTERM to the group, logged; then the deadline is computed
KpSigterm ==
  /\ pc = "kp_sigterm"
  /\ IF PidExists
       THEN /\ log' = Write(log, "sigterm")
            /\ deadline' = clock + GraceUnits
            /\ pc' = "kp_wait"
       ELSE /\ pc' = "stopped_marker"
            /\ UNCHANGED <<log, deadline>>
  /\ UNCHANGED <<cfg, sigAt, stop, restarts, clock, child, rc, delay_i, logOpen,
                 exit_status, reported, sigs, launches, launchClock,
                 killCalls, killStart, endReason>>

\* step 2: `while time.monotonic() < deadline: if proc.poll() is not None`
KpWait_nowait ==
  /\ pc = "kp_wait"
  /\ pc' = "kp_sigkill"
  /\ UNCHANGED <<cfg, sigAt, stop, restarts, clock, child, rc, delay_i,
                 deadline, log, logOpen, exit_status, reported, sigs,
                 launches, launchClock, killCalls, killStart, endReason>>

KpWait ==
  /\ pc = "kp_wait"
  /\ IF WaitContinues(clock, deadline)
       THEN IF child = "zombie"
              THEN /\ child' = "reaped"
                   /\ pc' = "stopped_marker"
              ELSE /\ pc' = "kp_sleep"
                   /\ UNCHANGED child
       ELSE /\ pc' = "kp_sigkill"
            /\ UNCHANGED child
  /\ UNCHANGED <<cfg, sigAt, stop, restarts, clock, rc, delay_i, deadline, log,
                 logOpen, exit_status, reported, sigs, launches, launchClock,
                 killCalls, killStart, endReason>>

\* `time.sleep(0.2)` in the wait loop
KpSleep ==
  /\ pc = "kp_sleep"
  /\ clock + PollUnits <= MaxClock
  /\ clock' = clock + PollUnits
  /\ pc' = "kp_wait"
  /\ UNCHANGED <<cfg, sigAt, stop, restarts, child, rc, delay_i, deadline, log,
                 logOpen, exit_status, reported, sigs, launches, launchClock,
                 killCalls, killStart, endReason>>

\* step 3: SIGKILL to the group, logged; a running child dies of it
KpSigkill ==
  /\ pc = "kp_sigkill"
  /\ IF PidExists
       THEN /\ log' = Write(log, "sigkill")
            /\ child' = "zombie"
            /\ rc' = IF child = "running" THEN -9 ELSE rc
       ELSE UNCHANGED <<log, child, rc>>
  /\ pc' = "stopped_marker"
  /\ UNCHANGED <<cfg, sigAt, stop, restarts, clock, delay_i, deadline, logOpen,
                 exit_status, reported, sigs, launches, launchClock,
                 killCalls, killStart, endReason>>

\* ------------------------------------------------------ after the child
\* the session-stopped marker, then `break`
StoppedMarker_restart ==
  /\ pc = "stopped_marker"
  /\ log' = Write(log, "stopped")
  /\ delay_i' = 0
  /\ pc' = "delay"
  /\ UNCHANGED <<cfg, sigAt, stop, restarts, clock, child, rc, deadline, logOpen,
                 exit_status, reported, sigs, launches, launchClock,
                 killCalls, killStart, endReason>>

StoppedMarker ==
  /\ pc = "stopped_marker"
  /\ log' = Write(log, "stopped")
  /\ endReason' = "stopped"
  /\ pc' = "session_end"
  /\ UNCHANGED <<cfg, sigAt, stop, restarts, clock, child, rc, delay_i, deadline,
                 logOpen, exit_status, reported, sigs, launches, launchClock,
                 killCalls, killStart>>

\* the exit marker with rc, restart accounting, the max-restarts check
HandleExit_cleanStops ==
  /\ pc = "handle_exit"
  /\ log' = Write(log, ExitMarker(rc))
  /\ IF rc = 0
       THEN /\ pc' = "session_end"
            /\ endReason' = "clean_exit"
            /\ UNCHANGED <<restarts, delay_i>>
       ELSE /\ restarts' = restarts + 1
            /\ pc' = "delay"
            /\ delay_i' = 0
            /\ UNCHANGED endReason
  /\ UNCHANGED <<cfg, sigAt, stop, clock, child, rc, deadline, logOpen, exit_status,
                 reported, sigs, launches, launchClock, killCalls, killStart>>

HandleExit ==
  /\ pc = "handle_exit"
  /\ restarts' = restarts + 1
  /\ IF BudgetReached(restarts')
       THEN /\ log' = Write(Write(log, ExitMarker(rc)), "max_restarts")
            /\ pc' = "session_end"
            /\ endReason' = "max_restarts"
            /\ UNCHANGED delay_i
       ELSE /\ log' = Write(log, ExitMarker(rc))
            /\ pc' = "delay"
            /\ delay_i' = 0
            /\ UNCHANGED endReason
  /\ UNCHANGED <<cfg, sigAt, stop, clock, child, rc, deadline, logOpen, exit_status,
                 reported, sigs, launches, launchClock, killCalls, killStart>>

\* `for _ in range(args.restart_delay): if stop: break`
DelayTest_nostop ==
  /\ pc = "delay"
  /\ pc' = IF delay_i < restart_delay THEN "delay_sleep" ELSE "outer_test"
  /\ UNCHANGED <<cfg, sigAt, stop, restarts, clock, child, rc, delay_i,
                 deadline, log, logOpen, exit_status, reported, sigs,
                 launches, launchClock, killCalls, killStart, endReason>>

DelayTest ==
  /\ pc = "delay"
  /\ pc' = IF delay_i < restart_delay /\ ~stop
             THEN "delay_sleep" ELSE "outer_test"
  /\ UNCHANGED <<cfg, sigAt, stop, restarts, clock, child, rc, delay_i, deadline,
                 log, logOpen, exit_status, reported, sigs, launches,
                 launchClock, killCalls, killStart, endReason>>

\* `time.sleep(1)` in the restart delay
DelaySleep ==
  /\ pc = "delay_sleep"
  /\ clock + TickUnits <= MaxClock
  /\ clock' = clock + TickUnits
  /\ delay_i' = delay_i + 1
  /\ pc' = "delay"
  /\ UNCHANGED <<cfg, sigAt, stop, restarts, child, rc, deadline, log, logOpen,
                 exit_status, reported, sigs, launches, launchClock,
                 killCalls, killStart, endReason>>

\* the session-ended marker; leaving the with block closes logf
SessionEnd ==
  /\ pc = "session_end"
  /\ log' = Write(log, "ended")
  /\ logOpen' = FALSE
  /\ pc' = "summary"
  /\ UNCHANGED <<cfg, sigAt, stop, restarts, clock, child, rc, delay_i, deadline,
                 exit_status, reported, sigs, launches, launchClock,
                 killCalls, killStart, endReason>>

\* the session summary prints `restarts + 1`; main() returns, status 0
Summary ==
  /\ pc = "summary"
  /\ reported' = restarts + 1
  /\ exit_status' = 0
  /\ pc' = "done"
  /\ UNCHANGED <<cfg, sigAt, stop, restarts, clock, child, rc, delay_i, deadline,
                 log, logOpen, sigs, launches, launchClock, killCalls,
                 killStart, endReason>>

\* ---------------------------------------------------------- specification
Next ==
  \/ handle_sig
  \/ ChildExit
  \/ OuterTest
  \/ PreLaunchGuard
  \/ LaunchOk
  \/ LaunchFail
  \/ PollTest
  \/ PollSleep
  \/ MidRunGuard
  \/ IfStop
  \/ KpGetpgid
  \/ KpSigterm
  \/ KpWait
  \/ KpSleep
  \/ KpSigkill
  \/ StoppedMarker
  \/ HandleExit
  \/ DelayTest
  \/ DelaySleep
  \/ SessionEnd
  \/ Summary

Spec == Init /\ [][Next]_vars

\* ------------------------------------------------------------ properties
KpPcs == {"kp_getpgid", "kp_sigterm", "kp_wait", "kp_sleep", "kp_sigkill"}

StopPathPcs == KpPcs \cup {"stopped_marker"}

Header == [m \in Markers |-> IF m \in {"started", "cmd"} THEN 1 ELSE 0]

\* C1: with a maximum duration D > 0 no child is launched at a moment when
\* the elapsed session time is >= D; at the pre-launch guard such a moment
\* ends the outer loop instead of leading to the launch.
C1_NoLaunchAtOrPastDeadline ==
  [][/\ (max_duration > 0 /\ launches' # launches)
          => clock' < max_duration * TickUnits
     /\ (max_duration > 0 /\ pc = "guard" /\ pc' # pc
           /\ clock >= max_duration * TickUnits)
          => (pc' = "session_end" /\ endReason' = "prelaunch_deadline"
              /\ launches' = launches)]_vars

C1_Witness ==
  /\ endReason = "prelaunch_deadline"
  /\ launches > 0
  /\ clock >= max_duration * TickUnits

\* C2: once the stop flag is true no further child launch occurs, whatever
\* the moment at which the signal handler ran.
C2_NoLaunchAfterStop == [][stop => launches' = launches]_vars

C4_ScenarioD ==
  (/\ pc = "done"
   /\ max_restarts > 0
   /\ max_duration = 0
   /\ sigs = 0
   /\ endReason = "max_restarts")
    => launches = max_restarts + 1

\* C5: on final exit by any non-fatal path the launch count of the session
\* summary equals the number of child launches performed.
C5_SummaryCountsLaunches == pc = "done" => reported = launches

\* C6 (as stated): a launch that fails because the binary is missing ends
\* the supervisor with a non-zero status, no restart attempt, and a log that
\* holds the session-start header only, with no launch marker.
C6_Original ==
  (pc = "fatal" /\ launches = 0)
    => (exit_status # 0 /\ restarts = 0 /\ log = Header)

\* C6 (amended): a launch that fails because the binary is missing or not
\* executable ends the supervisor in that very step with a non-zero status
\* and no restart attempt (the restart counter is unchanged, nothing runs
\* afterwards); the log then holds the launch marker of the failed attempt,
\* written before the spawn, and no session-ended marker: after a failure of
\* the first launch it is the session-start header plus one launch marker.
C6_FatalLaunch ==
  [][/\ (pc = "launch" /\ pc' # pc /\ launches' = launches)
          => /\ pc' = "fatal"
             /\ exit_status' # 0
             /\ restarts' = restarts
             /\ log' = Write(log, "launch")
             /\ log'["ended"] = 0
             /\ ~logOpen'
     /\ (pc' = "fatal" /\ launches' = 0)
          => (restarts' = 0 /\ log' = Write(Header, "launch"))
     /\ pc = "fatal" => FALSE]_vars

C6_Witness ==
  /\ pc = "fatal"
  /\ launches = 0
  /\ log["launch"] = 1
  /\ exit_status = 1

\* C7: the supervisor's exit status is non-zero exactly when a launch failed
\* fatally; a session ended by a signal stop, the pre-launch deadline, the
\* mid-run deadline or the restart budget exits with status 0.
C7_ExitStatus ==
  /\ pc \notin {"done", "fatal"} => exit_status = -1
  /\ pc = "fatal" => (endReason = "fatal" /\ exit_status # 0)
  /\ pc = "done"
       => /\ exit_status = 0
          /\ endReason \in
               {"stop_idle", "prelaunch_deadline", "stopped", "max_restarts"}

C7_Witness ==
  /\ pc = "done"
  /\ exit_status = 0
  /\ endReason = "stopped"
  /\ log["midrun_deadline"] = 1

\* C8: every call of the terminator returns within the grace period plus one
\* poll interval of its start, whether the child exits on SIGTERM, ignores
\* it or is already gone: inside the call, and at its return, no more than
\* that time has passed since the call.
C8_BoundedTermination ==
  pc \in StopPathPcs => clock - killStart <= GraceUnits + PollUnits

C8_Witness ==
  /\ pc = "stopped_marker"
  /\ log["sigkill"] = 1
  /\ clock - killStart = GraceUnits

\* C9: when the poll loop ends with the stop flag set the supervisor calls
\* the terminator, writes the session-stopped marker and leaves the outer
\* loop for good: no launch, no change of the restart counter and no restart
\* delay follows.
C9_StopPath ==
  [][/\ (pc = "if_stop" /\ stop /\ pc' # pc)
          => (pc' = "kp_getpgid" /\ killCalls' = killCalls + 1)
     /\ pc \in StopPathPcs
          => /\ launches' = launches
             /\ restarts' = restarts
             /\ pc' \in StopPathPcs \cup {"session_end"}
     /\ (pc = "stopped_marker" /\ pc' # pc)
          => /\ log'["stopped"] = log["stopped"] + 1
             /\ pc' = "session_end"
     /\ endReason = "stopped"
          => /\ launches' = launches
             /\ restarts' = restarts
             /\ pc' \in {"session_end", "summary", "done"}]_vars

C9_Witness ==
  /\ pc = "done"
  /\ endReason = "stopped"
  /\ killCalls = 1
  /\ log["stopped"] = 1
  /\ launches = 2

\* C10: a child exit with code 0 is handled like any other unsolicited
\* exit: it is logged, increments the restart counter and ends the session
\* only if that reaches the restart budget; otherwise the restart delay
\* follows and, with the stop flag false and the deadline not passed, the
\* loop goes on to the next launch.
C10_CleanExitRestarts ==
  [][/\ (pc = "handle_exit" /\ rc = 0 /\ pc' # pc)
          => /\ restarts' = restarts + 1
             /\ log' [ "exit0" ] = log["exit0"] + 1
             /\ IF max_restarts # 0 /\ restarts' >= max_restarts
                  THEN pc' = "session_end" /\ endReason' = "max_restarts"
                  ELSE pc' = "delay" /\ endReason' = endReason
     /\ (pc = "delay" /\ ~stop /\ pc' # pc)
          => pc' = (IF delay_i < restart_delay
                      THEN "delay_sleep" ELSE "outer_test")
     /\ (pc = "delay_sleep" /\ pc' # pc) => pc' = "delay"
     /\ (pc = "outer_test" /\ ~stop /\ pc' # pc) => pc' = "guard"
     /\ (pc = "guard" /\ pc' # pc
           /\ ~(max_duration # 0 /\ clock >= max_duration * TickUnits))
          => pc' = "launch"
     /\ (pc = "launch" /\ pc' = "poll_test") => launches' = launches + 1]_vars

C10_Witness ==
  /\ log["exit0"] = 1
  /\ log["exit1"] = 0
  /\ restarts = 1
  /\ launches = 2
  /\ child = "running"

\* the supervisor's state and output, without the delivery bookkeeping
observable ==
  <<cfg, pc, stop, restarts, clock, child, rc, delay_i, deadline, log,
    logOpen, exit_status, reported, launches, launchClock, killCalls,
    killStart, endReason>>

\* C11: a stop notification delivered while the flag is already true (the
\* second and later deliveries before the control thread looks at it) changes
\* nothing of the supervisor's state, so what follows (termination path, log
\* markers, exit status) is what follows a single delivery.
C11_StopIdempotent ==
  [][(sigs' = sigs + 1 /\ stop) => (stop' /\ UNCHANGED observable)]_vars

C11_Witness ==
  /\ sigs = 2
  /\ sigPc = "poll_sleep"
  /\ pc = "poll_sleep"
  /\ stop
  /\ child = "running"

\* C12: at most one child of the supervisor is alive: a launch happens only
\* when there is no earlier child or the earlier child has been seen as
\* exited by poll() (reaped).
C12_OneChild ==
  [][launches' = launches + 1
       => (child \in {"none", "reaped"} /\ child' = "running")]_vars

C12_Witness ==
  /\ launches = 2
  /\ child = "running"
  /\ pc = "poll_sleep"
  /\ restarts = 1

\* C13: every child exit that no supervisor-sent signal caused is logged with
\* its exit code and counted: in a finished session in which the supervisor
\* sent no signal at all, every launched child has its exit marker and its
\* restart count.
C13_EveryExitCounted ==
  (pc = "done" /\ log["sigterm"] = 0 /\ log["sigkill"] = 0)
    => (log["exit0"] + log["exit1"] = launches /\ restarts = launches)

\* ------------------------------------------------------------ scenario A
\* maximum duration 1..ScenarioDuration s, restart delay 1 s, no restart cap,
\* no signal, and a child that exits with code 0 at the instant of its
\* launch: no time passes while it runs.  Whether the exit is already there
\* when the supervisor polls for the first time is the scheduler's choice.
InitA ==
  /\ max_duration \in 1..ScenarioDuration
  /\ max_restarts = 0
  /\ restart_delay = 1
  /\ pc = "outer_test"
  /\ stop = FALSE
  /\ restarts = 0
  /\ clock = 0
  /\ child = "none"
  /\ rc = -1
  /\ delay_i = 0
  /\ deadline = 0
  /\ log = Header
  /\ logOpen = TRUE
  /\ exit_status = -1
  /\ reported = -1
  /\ sigs = 0
  /\ launches = 0
  /\ launchClock = 0
  /\ killCalls = 0
  /\ killStart = 0
  /\ endReason = "none"
  /\ sigClock = -1
  /\ sigPc = "none"

ChildExitsAtOnce == ChildExit /\ rc' = 0

PollSleepAfterExit == PollSleep /\ child # "running"

NextA ==
  \/ ChildExitsAtOnce
  \/ OuterTest
  \/ PreLaunchGuard
  \/ LaunchOk
  \/ PollTest
  \/ PollSleepAfterExit
  \/ MidRunGuard
  \/ IfStop
  \/ KpGetpgid
  \/ StoppedMarker
  \/ HandleExit
  \/ DelayTest
  \/ DelaySleep
  \/ SessionEnd
  \/ Summary

SpecA == InitA /\ [][NextA]_vars

InScenarioA == max_duration = 5 /\ restart_delay = 1

\* C14 (as stated): in scenario A with a maximum duration of 5 s the session
\* performs exactly 5 launches, logs 5 launch markers and 5 exit-code-0
\* markers, and stops at the pre-launch deadline guard.
C14_Original ==
  (InScenarioA /\ pc = "done")
    => /\ launches = 5
       /\ log["launch"] = 5
       /\ log["exit0"] = 5
       /\ endReason = "prelaunch_deadline"

\* C14 (amended): in scenario A with a maximum duration of 5 s no launch is
\* made at or after 5 s and between 3 and 5 launches are made, each with its
\* launch marker; the session logs 5 exit-code-0 markers (after exactly 5
\* launches) and stops at the pre-launch guard at 5 s when every exit was
\* already there at the first poll after its launch (no poll tick was slept),
\* and only then: an exit that the first poll misses is seen one tick later,
\* and fewer than 5 exit markers are logged.
C14_ScenarioA ==
  InScenarioA
    => /\ launches <= 5
       /\ pc = "launch" => (launches < 5 /\ clock < 5 * TickUnits)
       /\ pc = "done"
            => /\ launches \in 3..5
               /\ log["launch"] = launches
               /\ log["exit1"] = 0
               /\ log["exit0"] <= launches
               /\ (endReason = "prelaunch_deadline"
                     /\ clock = TickUnits * restarts)
                    => (launches = 5 /\ log["exit0"] = 5)
               /\ log["exit0"] = 5
                    => /\ launches = 5
                       /\ endReason = "prelaunch_deadline"
                       /\ log["prelaunch_deadline"] = 1
                       /\ clock = 5 * TickUnits

C14_Witness ==
  /\ InScenarioA
  /\ pc = "done"
  /\ launches = 5
  /\ log["launch"] = 5
  /\ log["exit0"] = 5
  /\ endReason = "prelaunch_deadline"

\* ------------------------------------------------------------ scenario B
\* a child that never exits by itself and ignores SIGTERM; stop signals are
\* delivered while it runs.
InitB ==
  /\ max_duration \in 0..MaxDuration
  /\ max_restarts \in 0..MaxRestartsCfg
  /\ restart_delay \in 0..MaxDelay
  /\ pc = "outer_test"
  /\ stop = FALSE
  /\ restarts = 0
  /\ clock = 0
  /\ child = "none"
  /\ rc = -1
  /\ delay_i = 0
  /\ deadline = 0
  /\ log = Header
  /\ logOpen = TRUE
  /\ exit_status = -1
  /\ reported = -1
  /\ sigs = 0
  /\ launches = 0
  /\ launchClock = 0
  /\ killCalls = 0
  /\ killStart = 0
  /\ endReason = "none"
  /\ sigClock = -1
  /\ sigPc = "none"

SigWhileRunning == handle_sig /\ child = "running"

NextB ==
  \/ SigWhileRunning
  \/ OuterTest
  \/ PreLaunchGuard
  \/ LaunchOk
  \/ PollTest
  \/ PollSleep
  \/ MidRunGuard
  \/ IfStop
  \/ KpGetpgid
  \/ KpSigterm
  \/ KpWait
  \/ KpSleep
  \/ KpSigkill
  \/ StoppedMarker
  \/ SessionEnd
  \/ Summary

SpecB == InitB /\ [][NextB]_vars

PollPcs == {"poll_test", "poll_sleep", "midrun"}

\* the first signal came while the supervisor was in its poll loop, and the
\* mid-run deadline guard has not fired
SignalStoppedRun ==
  sigs >= 1 /\ sigPc \in PollPcs /\ log["midrun_deadline"] = 0

\* C15: when a stop signal arrives while a child that ignores SIGTERM runs,
\* the supervisor sends SIGTERM once, escalates to SIGKILL when exactly the
\* grace period has passed since the terminator was called, logs exactly one
\* SIGTERM marker and one SIGKILL marker, and the session ends within one
\* poll tick plus the grace period plus one terminator poll interval of the
\* signal.
C15_ScenarioB ==
  SignalStoppedRun
    => /\ log["sigterm"] <= 1
       /\ log["sigkill"] <= 1
       /\ clock - sigClock <= TickUnits + GraceUnits + PollUnits
       /\ killCalls >= 1 => killStart - sigClock <= TickUnits
       /\ pc = "kp_sigkill" => clock - killStart = GraceUnits
       /\ pc \in {"stopped_marker", "session_end", "summary", "done"}
            => /\ log["sigterm"] = 1
               /\ log["sigkill"] = 1
               /\ clock - killStart = GraceUnits
               /\ killCalls = 1
               /\ launches = 1
       /\ pc = "done" => (endReason = "stopped" /\ log["stopped"] = 1)

C15_Witness ==
  /\ SignalStoppedRun
  /\ pc = "done"
  /\ launchClock = 0
  /\ sigClock = 2 * TickUnits
  /\ clock = 3 * TickUnits + GraceUnits
  /\ log["sigterm"] = 1
  /\ log["sigkill"] = 1

\* ------------------------------------------------- properties, continued
DelayPcs == {"delay", "delay_sleep"}

EndPcs == {"session_end", "summary", "done"}

\* C16: the terminator sends and logs SIGKILL exactly when the child is
\* still alive at the end of the grace period: a child that exited within the
\* grace period, the last 200 ms sleep included, gets no SIGKILL and no
\* SIGKILL marker.
C16_KillOnlyIfAlive ==
  [][/\ log'["sigkill"] # log["sigkill"] => child = "running"
     /\ (pc = "kp_sigkill" /\ pc' # pc /\ child = "running")
          => log'["sigkill"] = log["sigkill"] + 1]_vars

\* the first signal came during the restart delay
SignalInDelay == sigs >= 1 /\ sigPc \in DelayPcs

\* C17: when the stop flag becomes true during the restart delay, the delay
\* ends at the next 1-second tick boundary (at most the sleep in progress is
\* finished) and the session ends without another launch.
C17_DelayInterrupted ==
  SignalInDelay
    => /\ pc \in DelayPcs \cup {"outer_test"} \cup EndPcs
       /\ clock - sigClock <= TickUnits
       /\ pc = "delay_sleep" => clock = sigClock
       /\ child = "reaped"
       /\ log["launch"] = restarts
       /\ pc \in EndPcs => endReason = "stop_idle"

C17_Witness ==
  /\ SignalInDelay
  /\ pc = "done"
  /\ restart_delay = 2
  /\ delay_i = 1
  /\ clock - sigClock = TickUnits
  /\ launches = 1

\* C18: while a child runs with D > 0 the mid-run guard is evaluated once per
\* 1-second poll tick; at the first tick where elapsed >= D it sets the stop
\* flag (and logs it), and from there the supervisor takes the path of a
\* signal stop: terminator, session-stopped marker, no restart, restart
\* counter unchanged.
C18_MidRunGuard ==
  /\ [](/\ (pc \in {"poll_test", "poll_sleep"} /\ max_duration > 0
              /\ clock >= max_duration * TickUnits)
             => (stop /\ log["midrun_deadline"] = 1)
        /\ log["midrun_deadline"] <= 1
        /\ (log["midrun_deadline"] = 1 /\ pc = "done")
             => /\ endReason = "stopped"
                /\ log["stopped"] = 1
                /\ killCalls = 1)
  /\ [][/\ (pc = "poll_sleep" /\ pc' # pc)
             => (pc' = "midrun" /\ clock' = clock + TickUnits)
        /\ (pc = "midrun" /\ pc' # pc)
             => /\ pc' = "poll_test"
                /\ clock' = clock
                /\ IF max_duration > 0 /\ clock >= max_duration * TickUnits
                     THEN /\ stop'
                          /\ log' = Write(log, "midrun_deadline")
                     ELSE /\ stop' = stop
                          /\ log' = log
        /\ log["midrun_deadline"] = 1
             => /\ restarts' = restarts
                /\ launches' = launches
                /\ pc' \in {"poll_test", "if_stop"} \cup StopPathPcs
                             \cup EndPcs]_vars

C18_Witness ==
  /\ pc = "done"
  /\ log["midrun_deadline"] = 1
  /\ sigs = 0
  /\ log["sigkill"] = 1
  /\ restarts = 1
  /\ launches = 2
  /\ endReason = "stopped"

\* the supervisor has entered the stop path or left the outer loop
Reacted == pc \in StopPathPcs \cup EndPcs

\* C19: the signal handler only sets the stop flag, and the control thread
\* reacts within one 1-second tick, in the child poll loop as in the restart
\* delay: until it has entered the stop path or left the outer loop, and at
\* the moment it does, at most one tick has passed since the signal.
C19_ReactionWithinTick ==
  /\ [](/\ (sigs >= 1 /\ sigPc \in PollPcs \cup DelayPcs /\ ~Reacted)
             => clock - sigClock <= TickUnits
        /\ (sigs >= 1 /\ sigPc \in PollPcs /\ Reacted)
             => (killCalls = 1 /\ killStart - sigClock <= TickUnits)
        /\ (sigs >= 1 /\ sigPc \in DelayPcs /\ Reacted)
             => (killCalls = 0 /\ clock - sigClock <= TickUnits))
  /\ [][sigs' # sigs
          => /\ stop'
             /\ UNCHANGED <<cfg, pc, restarts, clock, child, rc, delay_i,
                            deadline, log, logOpen, exit_status, reported,
                            launches, killCalls, endReason>>]_vars

C19_Witness ==
  /\ sigs = 1
  /\ sigPc = "poll_sleep"
  /\ pc = "kp_getpgid"
  /\ child = "running"
  /\ clock - sigClock = TickUnits
  /\ log["midrun_deadline"] = 0

Control ==
  \/ OuterTest
  \/ PreLaunchGuard
  \/ LaunchOk
  \/ LaunchFail
  \/ PollTest
  \/ PollSleep
  \/ MidRunGuard
  \/ IfStop
  \/ KpGetpgid
  \/ KpSigterm
  \/ KpWait
  \/ KpSleep
  \/ KpSigkill
  \/ StoppedMarker
  \/ HandleExit
  \/ DelayTest
  \/ DelaySleep
  \/ SessionEnd
  \/ Summary

\* sessions with a maximum duration
InitL == Init /\ max_duration > 0

SpecL == InitL /\ [][Next]_vars /\ WF_vars(Control)

\* the exploration's cap on launches is reached: only restart cycles that
\* take no time at all (restart delay 0, exit seen at the first poll) get here
LaunchCapReached == pc = "launch" /\ launches = MaxLaunches

\* C21: the log sink is closed on every path by which the session ends, the
\* fatal launch aborts included, is open until then, and nothing is written
\* to it once it is closed.
C21_LogClosed ==
  /\ [](/\ pc \in {"summary", "done", "fatal"} => ~logOpen
        /\ pc \notin {"summary", "done", "fatal"} => logOpen)
  /\ [][~logOpen => (log' = log /\ ~logOpen')]_vars

C21_Witness ==
  /\ pc = "fatal"
  /\ ~logOpen
  /\ launches = 1
  /\ log["launch"] = 2
  /\ log["ended"] = 0

\* C22: the stop flag starts false and only ever goes from false to true: no
\* step (signal handler, mid-run guard, launch, restart, restart delay)
\* resets it.
C22_StopMonotonic ==
  /\ stop = FALSE
  /\ [][stop => stop']_vars

C22_Witness ==
  /\ stop
  /\ sigs = 2
  /\ log["midrun_deadline"] = 1
  /\ launches = 2
  /\ pc = "done"

\* C23: with a maximum duration D > 0 the supervisor eventually leaves the
\* outer loop and ends the session, whatever the child does (never exits,
\* exits at once on every launch, ignores SIGTERM), whatever the restart
\* delay and the restart cap, and also when no signal is ever delivered.
C23_Terminates ==
  max_duration > 0 => <>(pc \in {"done", "fatal"} \/ LaunchCapReached)

C23_Witness ==
  /\ pc = "done"
  /\ max_duration > 0
  /\ sigs = 0
  /\ log["midrun_deadline"] = 1
  /\ log["sigkill"] = 1
  /\ child = "zombie"
  /\ clock = max_duration * TickUnits + GraceUnits

=============================================================================
